---- MODULE Spec2Model ----
(***************************************************************************)
(* A model of pyavagen/generators.py: the avatar generator classes         *)
(* (BaseAvatar, ColorListMixin, SquareAvatar, CharAvatar,                  *)
(* CharSquareAvatar) and the Avatar factory.                               *)
(*                                                                         *)
(* One caller constructs a generator (directly or through the factory)     *)
(* and calls generate() on it, possibly several times.  Every random draw  *)
(* of the code (randint, choice, get_random_hex_color) is an input of the  *)
(* action that makes it.  A Python exception ends the run with its name    *)
(* in err.                                                                 *)
(*                                                                         *)
(* Conventions.  A Python value that may be None is a sequence: <<>> is    *)
(* None and <<v>> is the value v.  A str that the code indexes is a        *)
(* sequence of one-character strings; a colour is a TLA+ string.  The      *)
(* floats of the crop box are kept exact as numbers (a + b*sqrt(2))/2,     *)
(* written [a |-> a, b |-> b].                                             *)
(***************************************************************************)
EXTENDS Integers, Sequences, FiniteSets, TLC

(***************************************************************************)
(* Bounds of the model.                                                    *)
(***************************************************************************)
\* the largest size argument tried
MaxSize == 2
\* the largest squares_quantity_on_axis argument tried
MaxSquares == 3
\* the largest font_size argument tried
MaxFontSize == 1
\* randint(a, b) draws from a .. min(b, a + MaxRandSpan), and choice(seq) among
\* the first 1 + MaxRandSpan elements of seq
MaxRandSpan == 1
\* generate() calls made on one instance, or on one factory
MaxGenerates == 2

(***************************************************************************)
(* Optional values and Python truthiness.                                  *)
(***************************************************************************)
None == <<>>
Some(v) == <<v>>
IsNone(o) == Len(o) = 0
Val(o) == o[1]

\* `x if x else ...` on an int-or-None: None and 0 are falsy
TruthyInt(o) == ~IsNone(o) /\ Val(o) # 0
\* on a str-or-None colour: None and '' are falsy
TruthyStr(o) == ~IsNone(o) /\ Val(o) # ""
\* on a list: the empty list is falsy
TruthyList(l) == Len(l) > 0

Min(a, b) == IF a <= b THEN a ELSE b

\* random.randint(a, b): a <= N <= b
Randint(a, b) == a .. Min(b, a + MaxRandSpan)

(***************************************************************************)
(* Colours.                                                                *)
(***************************************************************************)
COLOR_LIST_FLAT ==
    << "#1abc9c", "#2ecc71", "#3498db", "#9b59b6", "#34495e",
       "#16a085", "#27ae60", "#2980b9", "#8e44ad", "#2c3e50",
       "#f1c40f", "#e67e22", "#e74c3c", "#ecf0f1", "#95a5a6",
       "#f39c12", "#d35400", "#c0392b", "#bdc3c7", "#7f8c8d" >>

COLOR_LIST_MATERIAL ==
    << "#D32F2F", "#C2185B", "#7B1FA2", "#512DA8", "#303F9F",
       "#1976D2", "#0288D1", "#0097A7", "#00796B", "#388E3C",
       "#689F38", "#AFB42B", "#FBC02D", "#FFA000", "#F57C00",
       "#E64A19", "#5D4037", "#616161", "#455A64", "#333333" >>

Range(s) == { s[i] : i \in 1..Len(s) }

\* pyavagen.utils.get_random_hex_color(): a random '#rrggbb'; the values drawn
\* here are three of the 2^24, one of them also an entry of the flat palette
HexSamples == { "#000000", "#1abc9c", "#fffffe" }

\* pyavagen.validators.ColorValidator: the imaging backend accepts the value
NamedColors == { "white", "black", "red" }
ColorValidator(c) ==
    c \in NamedColors \cup Range(COLOR_LIST_FLAT) \cup Range(COLOR_LIST_MATERIAL)
            \cup HexSamples

\* pyavagen.validators.MinValueValidator(m): rejects a value below m
MinValueValidator(m, v) == v >= m

(***************************************************************************)
(* Class constants.                                                        *)
(***************************************************************************)
SIZE_MIN == 1
BLUR_RADIUS_MIN == 0
BLUR_RADIUS_DEFAULT == 1
FONT_SIZE_MIN == 1
FONT_COLOR_DEFAULT == "white"
DEFAULT_FONT == "fonts/Comfortaa-Regular.ttf"
COLOR_LIST_DEFAULT == COLOR_LIST_FLAT

\* the AvatarField declarations of the classes: the default, the bound of the
\* MinValueValidator and whether a ColorValidator is declared.  The
\* TypeValidator of each field holds of every argument tried.
AvatarField(name) ==
    CASE name = "size" ->
           [default |-> None, min |-> Some(SIZE_MIN), color |-> FALSE]
      [] name = "color_list" ->
           [default |-> Some(COLOR_LIST_DEFAULT), min |-> None, color |-> FALSE]
      [] name = "squares_quantity_on_axis" ->
           [default |-> None, min |-> Some(1), color |-> FALSE]
      [] name = "blur_radius" ->
           [default |-> Some(BLUR_RADIUS_DEFAULT), min |-> Some(BLUR_RADIUS_MIN),
            color |-> FALSE]
      [] name = "rotate" ->
           [default |-> None, min |-> None, color |-> FALSE]
      [] name = "square_border" ->
           [default |-> None, min |-> None, color |-> TRUE]
      [] name = "string" ->
           [default |-> None, min |-> None, color |-> FALSE]
      [] name = "font" ->
           [default |-> Some(DEFAULT_FONT), min |-> None, color |-> FALSE]
      [] name = "background_color" ->
           [default |-> None, min |-> None, color |-> TRUE]
      [] name = "font_color" ->
           [default |-> Some(FONT_COLOR_DEFAULT), min |-> None, color |-> TRUE]
      [] name = "font_size" ->
           [default |-> None, min |-> Some(FONT_SIZE_MIN), color |-> FALSE]

\* every validator of the field accepts v
Validate(field, v) ==
    /\ IsNone(field.min) \/ MinValueValidator(Val(field.min), v)
    /\ field.color => ColorValidator(v)

(***************************************************************************)
(* Exceptions: a computation is [err, self]; err = "" while none is raised  *)
(***************************************************************************)
NoError == ""
Ok(self) == [err |-> NoError, self |-> self]
Raise(e, self) == [err |-> e, self |-> self]

\* pyavagen.fields.AvatarField.__set__: None stores the field's default (None
\* when the field declares none); any other value must pass every validator
AvatarFieldSet(ctx, name, value) ==
    IF ctx.err # NoError THEN ctx
    ELSE IF IsNone(value)
    THEN Ok([ctx.self EXCEPT ![name] = AvatarField(name).default])
    ELSE IF ~Validate(AvatarField(name), Val(value))
    THEN Raise("ValidationError", ctx.self)
    ELSE Ok([ctx.self EXCEPT ![name] = value])

(***************************************************************************)
(* Rasters.  A PIL image is [id, side, color, via, hist]: its identity, its *)
(* width and height, the colour it was created with and where that colour  *)
(* came from, and the operations that made it.                             *)
(***************************************************************************)
ImageNew(id, side, color, via) ==
    [id |-> id, w |-> side, h |-> side, color |-> color, via |-> via,
     hist |-> <<"new">>]

\* ImageDraw.Draw(img).rectangle / .text: draws on img in place
ImageDrawOn(img, what) == [img EXCEPT !.hist = Append(@, what)]

\* img.rotate(angle), img.filter(...): a new image of the same size
ImageDerive(img, id, what) == [img EXCEPT !.id = id, !.hist = Append(@, what)]

(***************************************************************************)
(* Exact arithmetic on the numbers (a + b*sqrt(2))/2, a and b integers:    *)
(* the values the crop box of SquareAvatar.generate takes.                 *)
(***************************************************************************)
Q2(a, b) == [a |-> a, b |-> b]
Q2FromInt(n) == Q2(2 * n, 0)
Q2Add(x, y) == Q2(x.a + y.a, x.b + y.b)
Q2Sub(x, y) == Q2(x.a - y.a, x.b - y.b)

\* a + b*sqrt(2) <= 0
NonPos(a, b) ==
    IF a <= 0 /\ b <= 0 THEN TRUE
    ELSE IF a >= 0 /\ b >= 0 THEN FALSE
    ELSE IF a < 0 THEN 2 * b * b <= a * a
    ELSE a * a <= 2 * b * b

\* round(x), Python 3: the nearest integer, the even one of two equally near;
\* it is one of the three integers around (a + 1.414 b)/2
Q2Round(x) ==
    LET near == (1000 * x.a + 1414 * x.b) \div 2000
    IN  CHOOSE r \in (near - 1) .. (near + 1) :
            \/ /\ ~NonPos(x.a - (2 * r - 1), x.b)
               /\ ~NonPos((2 * r + 1) - x.a, -x.b)
            \/ /\ x.b = 0
               /\ (x.a = 2 * r - 1 \/ x.a = 2 * r + 1)
               /\ r % 2 = 0

\* img.crop(box): the box is rounded to integers; the result is a new image
\* of the box's size, whatever part of the box lies outside img
ImageCrop(img, id, x0, y0, x1, y1) ==
    [img EXCEPT !.id = id,
                !.w = Q2Round(x1) - Q2Round(x0),
                !.h = Q2Round(y1) - Q2Round(y0),
                !.hist = Append(@, "crop")]

(***************************************************************************)
(* Construction.                                                           *)
(***************************************************************************)
Classes == { "SquareAvatar", "CharAvatar", "CharSquareAvatar" }

\* an instance before __init__ has assigned anything
NewSelf(cls) ==
    [cls |-> cls, size |-> None, color_list |-> None,
     squares_quantity_on_axis |-> None, blur_radius |-> None, rotate |-> None,
     square_border |-> None, string |-> None, font |-> None,
     font_color |-> None, background_color |-> None, font_size |-> None,
     img |-> None]

\* random.choice(seq) with the draw k
Choice(seq, k) == seq[((k - 1) % Len(seq)) + 1]

\* the draws one get_random_color() call can make on color_list: an index for
\* choice (one of the first 1 + MaxRandSpan), or a get_random_hex_color() value
ColorDraws(color_list) ==
    IF TruthyList(color_list)
    THEN { [k |-> k, hex |-> ""] : k \in 1..Min(Len(color_list), 1 + MaxRandSpan) }
    ELSE { [k |-> 1, hex |-> x] : x \in HexSamples }

\* get_random_color falling back on the default palette, not on
\* get_random_hex_color(), when color_list is empty
get_random_color_PaletteFallback(self, e) ==
    LET color_list == Val(self.color_list)
    IN  [color |-> Choice(IF TruthyList(color_list) THEN color_list
                          ELSE COLOR_LIST_DEFAULT, e.k),
         via |-> "choice"]

\* ColorListMixin.get_random_color with the draw e: the colour and the call
\* that made it
get_random_color(self, e) ==
    LET color_list == Val(self.color_list)
    IN  IF TruthyList(color_list)
        THEN [color |-> Choice(color_list, e.k), via |-> "choice"]
        ELSE [color |-> e.hex, via |-> "get_random_hex_color"]

BaseAvatar_get_initial_img(self, id) ==
    ImageNew(id, Val(self.size), "black", "blank")

SquareAvatar_get_initial_img(self, id) ==
    ImageNew(id, Val(self.size) * 2, "black", "blank")

CharAvatar_get_initial_img(self, id, e) ==
    LET b_color == self.background_color
        picked == IF TruthyStr(b_color)
                  THEN [color |-> Val(b_color), via |-> "background_color"]
                  ELSE get_random_color(self, e)
    IN  ImageNew(id, Val(self.size), picked.color, picked.via)

\* get_initial_img as it would resolve were CharAvatar the first base of
\* CharSquareAvatar
get_initial_img_CharFirst(self, id, e) ==
    IF self.cls \in {"CharAvatar", "CharSquareAvatar"}
    THEN CharAvatar_get_initial_img(self, id, e)
    ELSE SquareAvatar_get_initial_img(self, id)

\* self.get_initial_img(): the first class of the instance's method
\* resolution order that defines it
get_initial_img(self, id, e) ==
    IF self.cls \in {"SquareAvatar", "CharSquareAvatar"}
    THEN SquareAvatar_get_initial_img(self, id)
    ELSE IF self.cls = "CharAvatar"
    THEN CharAvatar_get_initial_img(self, id, e)
    ELSE BaseAvatar_get_initial_img(self, id)

BaseAvatar__init__(ctx, kw, id, e) ==
    LET c1 == AvatarFieldSet(ctx, "size", kw.size)
    IN  IF c1.err # NoError THEN c1
        ELSE Ok([c1.self EXCEPT !.img = Some(get_initial_img(c1.self, id, e))])

ColorListMixin__init__(ctx, kw, id, e) ==
    BaseAvatar__init__(AvatarFieldSet(ctx, "color_list", kw.color_list),
                       kw, id, e)

CharAvatar__init__(ctx, kw, id, e) ==
    LET c1 == AvatarFieldSet(ctx, "background_color", kw.background_color)
        c2 == ColorListMixin__init__(c1, kw, id, e)
        c3 == AvatarFieldSet(c2, "font_size",
                  IF TruthyInt(kw.font_size) THEN kw.font_size
                  ELSE Some((6 * Val(c2.self.size)) \div 10))
        c4 == AvatarFieldSet(c3, "font", kw.font)
        c5 == AvatarFieldSet(c4, "font_color", kw.font_color)
    IN  AvatarFieldSet(c5, "string", kw.string)

\* rnd: the randint draws, made when the argument is falsy
SquareAvatar__init__(ctx, kw, id, e, rnd) ==
    LET c1 == IF ctx.self.cls = "CharSquareAvatar"
              THEN CharAvatar__init__(ctx, kw, id, e)
              ELSE ColorListMixin__init__(ctx, kw, id, e)
        c2 == AvatarFieldSet(c1, "blur_radius", kw.blur_radius)
        c3 == AvatarFieldSet(c2, "square_border", kw.square_border)
        c4 == AvatarFieldSet(c3, "rotate",
                  IF TruthyInt(kw.rotate) THEN kw.rotate ELSE Some(rnd.rotate))
    IN  AvatarFieldSet(c4, "squares_quantity_on_axis",
            IF TruthyInt(kw.squares_quantity_on_axis)
            THEN kw.squares_quantity_on_axis
            ELSE Some(rnd.squares))

\* cls(**kw): the __init__ the class resolves to
Construct(cls, kw, id, e, rnd) ==
    IF cls = "CharAvatar"
    THEN CharAvatar__init__(Ok(NewSelf(cls)), kw, id, e)
    ELSE SquareAvatar__init__(Ok(NewSelf(cls)), kw, id, e, rnd)

(***************************************************************************)
(* generate().  A call leaves a record of what it did:                     *)
(*   method      the class whose generate() was called                     *)
(*   startId, startW, startHanded                                          *)
(*               the image SquareAvatar.generate drew the grid on, its     *)
(*               width, and whether the caller had been handed that image  *)
(*   side_length, per_axis                                                 *)
(*               square_side_length and the squares drawn along each axis  *)
(*   rotated     the angle passed to img.rotate                            *)
(*   box         the crop box                                              *)
(*   fill        the fill of one cell of the grid, any of them             *)
(*   squareOut   the image SquareAvatar.generate returned                  *)
(*   glyph, glyphOn                                                        *)
(*               the text CharAvatar.generate drew, and the image it drew  *)
(*               on as it was before                                       *)
(*   ret         the image returned to the caller                          *)
(***************************************************************************)
NoTrace ==
    [method |-> "", startId |-> -1, startW |-> -1, startHanded |-> FALSE,
     side_length |-> -1, per_axis |-> -1, rotated |-> None, box |-> None,
     fill |-> None, squareOut |-> None, glyph |-> None, glyphOn |-> None,
     ret |-> None]

Done(e, self, t) == [err |-> e, self |-> self, trace |-> t]

\* math.sqrt(2) * self.size, the division by 2 forgotten
DistanceA_NoHalf(size) == Q2(0, 2 * size)

\* math.sqrt(2) * self.size / 2
DistanceA(size) == Q2(0, size)

\* size2x - self.size - distance_a
DistanceB(size, size2x, distance_a) == Q2Sub(Q2FromInt(size2x - size), distance_a)

\* size2x - (size2x - self.size - x0)
BoxEnd(size, size2x, x0) == Q2Sub(Q2FromInt(size2x), Q2Sub(Q2FromInt(size2x - size), x0))

\* the crop box, with the draws cx and cy of the two choice([a, b]) calls
CropBox(size, cx, cy) ==
    LET size2x == size * 2
        distance_a == DistanceA(size)
        distance_b == DistanceB(size, size2x, distance_a)
        x0 == Choice(<<distance_a, distance_b>>, cx)
        y0 == Choice(<<distance_a, distance_b>>, cy)
    IN  [x0 |-> x0, y0 |-> y0,
         x1 |-> BoxEnd(size, size2x, x0), y1 |-> BoxEnd(size, size2x, y0)]

\* size2x // self.squares_quantity_on_axis
SquareSideLength(size2x, squares_quantity_on_axis) ==
    size2x \div squares_quantity_on_axis

\* id: the identity of the next image made; e: the get_random_color draw of
\* the cell recorded in fill
SquareAvatar_generate(self, t, id, e, cx, cy, handedOut) ==
    LET img == Val(self.img)
        size == Val(self.size)
        size2x == size * 2
        square_side_length ==
            SquareSideLength(size2x, Val(self.squares_quantity_on_axis))
        t0 == [t EXCEPT !.startId = img.id, !.startW = img.w,
                        !.startHanded = img.id \in handedOut,
                        !.side_length = square_side_length]
    IN  IF square_side_length = 0
        THEN Done("ZeroDivisionError", self, t0)
        ELSE
          LET per_axis == size2x \div square_side_length
              drawn == ImageDrawOn(img, "rectangle")
              rotated == ImageDerive(drawn, id, "rotate")
              box == CropBox(size, cx, cy)
              cropped == ImageCrop(rotated, id + 1, box.x0, box.y0, box.x1, box.y1)
              blurred == ImageDerive(cropped, id + 2, "filter")
          IN  Done(NoError, [self EXCEPT !.img = Some(blurred)],
                   [t0 EXCEPT !.per_axis = per_axis,
                              !.rotated = self.rotate,
                              !.box = Some(box),
                              !.fill = Some(get_random_color(self, e)),
                              !.squareOut = Some(blurred),
                              !.ret = Some(blurred)])

\* str.upper() on one character
Upper(c) ==
    CASE c = "a" -> "A"
      [] c = "b" -> "B"
      [] c = "n" -> "N"
      [] c = "o" -> "O"
      [] OTHER -> c

CharAvatar_generate(self, t) ==
    LET img == Val(self.img)
        string == Val(self.string)
    IN  IF Len(string) = 0
        THEN Done("IndexError", self, t)
        ELSE
          LET char == Upper(string[1])
              drawn == ImageDrawOn(img, "text")
          IN  Done(NoError, [self EXCEPT !.img = Some(drawn)],
                   [t EXCEPT !.glyph = Some(char), !.glyphOn = Some(img),
                             !.ret = Some(drawn)])

CharSquareAvatar_generate(self, t, id, e, cx, cy, handedOut) ==
    LET s == SquareAvatar_generate(self, t, id, e, cx, cy, handedOut)
    IN  IF s.err # NoError THEN s
        ELSE CharAvatar_generate(s.self, s.trace)

\* self.generate(): the method the instance's class resolves to
Generate(self, id, e, cx, cy, handedOut) ==
    LET t == [NoTrace EXCEPT !.method = self.cls]
    IN  IF self.cls = "SquareAvatar"
        THEN SquareAvatar_generate(self, t, id, e, cx, cy, handedOut)
        ELSE IF self.cls = "CharAvatar"
        THEN CharAvatar_generate(self, t)
        ELSE CharSquareAvatar_generate(self, t, id, e, cx, cy, handedOut)

(***************************************************************************)
(* The factory.                                                            *)
(***************************************************************************)
\* AVATAR_CLASSES with CHAR left out
AVATAR_CLASSES_NoChar == << "SquareAvatar", "CharSquareAvatar" >>

AVATAR_CLASSES == << "SquareAvatar", "CharSquareAvatar", "CharAvatar" >>

\* Avatar.__init__: the exception it raises, NoError when none
Avatar__init__(avatar_class) ==
    IF avatar_class \notin Range(AVATAR_CLASSES) THEN "AttributeError" ELSE NoError

(***************************************************************************)
(* The arguments tried.                                                    *)
(***************************************************************************)
SizeArgs == { Some(n) : n \in 0..MaxSize }
ColorListArgs == { None, Some(<<>>), Some(<<"#D32F2F", "#1976D2">>) }
SquaresArgs == { None } \cup { Some(n) : n \in -1..MaxSquares }
RotateArgs == { None, Some(0), Some(90) }
FontSizeArgs == { None } \cup { Some(n) : n \in -1..MaxFontSize }
StringArgs == { Some(<<>>), Some(<<"a", "n", "n">>) }
BackgroundArgs == { None, Some("red") }
BorderArgs == { None }
BlurArgs == { None }

NoKwargs ==
    [size |-> None, color_list |-> None, squares_quantity_on_axis |-> None,
     blur_radius |-> None, rotate |-> None, square_border |-> None,
     string |-> None, font |-> None, font_color |-> None,
     background_color |-> None, font_size |-> None]

\* SquareAvatar(**kw): an argument left out is None
SquareKwargs ==
    { [NoKwargs EXCEPT !.size = a[1], !.color_list = a[2],
                       !.squares_quantity_on_axis = a[3], !.rotate = a[4],
                       !.square_border = a[5], !.blur_radius = a[6]] :
        a \in SizeArgs \X ColorListArgs \X SquaresArgs \X RotateArgs
                \X BorderArgs \X BlurArgs }

\* CharAvatar(**kw)
CharKwargs ==
    { [NoKwargs EXCEPT !.size = a[1], !.color_list = a[2], !.string = a[3],
                       !.background_color = a[4], !.font_size = a[5]] :
        a \in SizeArgs \X ColorListArgs \X StringArgs \X BackgroundArgs
                \X FontSizeArgs }

\* CharSquareAvatar(**kw): the arguments of SquareAvatar with a string, and
\* the arguments of CharAvatar with those of SquareAvatar left out
CharSquareKwargs ==
    { [kw EXCEPT !.string = s] : kw \in SquareKwargs, s \in StringArgs }
        \cup CharKwargs

Kwargs(cls) ==
    IF cls = "SquareAvatar" THEN SquareKwargs
    ELSE IF cls = "CharAvatar" THEN CharKwargs
    ELSE CharSquareKwargs

\* the draws of SquareAvatar.__init__: randint(0, 360) when rotate is falsy,
\* randint(3, 4) when squares_quantity_on_axis is falsy; CharAvatar.__init__
\* draws nothing
RandDraws(cls, kw) ==
    [rotate : IF cls # "CharAvatar" /\ ~TruthyInt(kw.rotate)
              THEN Randint(0, 360) ELSE {0},
     squares : IF cls # "CharAvatar" /\ ~TruthyInt(kw.squares_quantity_on_axis)
               THEN Randint(3, 4) ELSE {0}]

NoColorDraw == [k |-> 1, hex |-> ""]

\* the draws of the get_random_color() call of a construction: the one of
\* CharAvatar.get_initial_img when background_color is falsy
InitColorDraws(cls, kw) ==
    IF cls = "CharAvatar" /\ ~TruthyStr(kw.background_color)
    THEN ColorDraws(IF IsNone(kw.color_list) THEN COLOR_LIST_DEFAULT
                    ELSE Val(kw.color_list))
    ELSE { NoColorDraw }

\* the draws of a generate() call: the fill of a cell and the two choices of
\* the crop box in SquareAvatar.generate; CharAvatar.generate draws nothing
GenerateDraws(self) ==
    IF self.cls = "CharAvatar"
    THEN { [e |-> NoColorDraw, cx |-> 1, cy |-> 1] }
    ELSE [e : ColorDraws(Val(self.color_list)), cx : 1..2, cy : 1..2]

(***************************************************************************)
(* The state machine.                                                      *)
(***************************************************************************)
VARIABLES
    pc,            \* "start", "instance", "factory" or "raised"
    avatar_class,  \* the class constructed, or given to the factory
    kwargs,        \* the keyword arguments given
    obj,           \* the generator instance made last, None when none
    err,           \* the exception that reached the caller, NoError when none
    trace,         \* what the last generate() call did
    handed,        \* the identities of the images returned to the caller
    nextId,        \* the identity of the next image
    calls          \* generate() calls made

vars == <<pc, avatar_class, kwargs, obj, err, trace, handed, nextId, calls>>

Init ==
    /\ pc = "start"
    /\ avatar_class = ""
    /\ kwargs = NoKwargs
    /\ obj = None
    /\ err = NoError
    /\ trace = NoTrace
    /\ handed = {}
    /\ nextId = 0
    /\ calls = 0

\* obj = cls(**kw)
New(cls) ==
    /\ pc = "start"
    /\ \E kw \in Kwargs(cls) :
         \E rnd \in RandDraws(cls, kw), e \in InitColorDraws(cls, kw) :
           \E c \in { Construct(cls, kw, nextId, e, rnd) } :
               /\ avatar_class' = cls
               /\ kwargs' = kw
               /\ err' = c.err
               /\ obj' = IF c.err = NoError THEN Some(c.self) ELSE None
               /\ pc' = IF c.err = NoError THEN "instance" ELSE "raised"
    /\ nextId' = nextId + 1
    /\ UNCHANGED <<trace, handed, calls>>

NewSquareAvatar == New("SquareAvatar")
NewCharAvatar == New("CharAvatar")
NewCharSquareAvatar == New("CharSquareAvatar")

\* what a generate() call on self leaves behind
Generated(self, g, id) ==
    /\ err' = g.err
    /\ obj' = Some(g.self)
    /\ trace' = g.trace
    /\ handed' = IF g.err = NoError THEN handed \cup {Val(g.trace.ret).id}
                 ELSE handed
    /\ nextId' = id + 3
    /\ calls' = calls + 1

\* obj.generate()
InstanceGenerate ==
    /\ pc = "instance"
    /\ calls < MaxGenerates
    /\ \E self \in { Val(obj) } :
       \E d \in GenerateDraws(self) :
         \E g \in { Generate(self, nextId, d.e, d.cx, d.cy, handed) } :
             /\ Generated(self, g, nextId)
             /\ pc' = IF g.err = NoError THEN "instance" ELSE "raised"
    /\ UNCHANGED <<avatar_class, kwargs>>

AvatarClassArgs == Classes \cup { "BaseAvatar", "ColorListMixin", "square" }

\* factory = Avatar(avatar_class, **kw)
NewAvatar ==
    /\ pc = "start"
    /\ \E cls \in AvatarClassArgs :
         \E kw \in IF cls \in Classes THEN Kwargs(cls) ELSE Kwargs("SquareAvatar") :
           /\ avatar_class' = cls
           /\ kwargs' = kw
           /\ err' = Avatar__init__(cls)
           /\ pc' = IF Avatar__init__(cls) = NoError THEN "factory" ELSE "raised"
    /\ UNCHANGED <<obj, trace, handed, nextId, calls>>

\* factory.generate(): self.avatar_class(**self.kwargs).generate()
AvatarGenerate ==
    /\ pc = "factory"
    /\ calls < MaxGenerates
    /\ \E rnd \in RandDraws(avatar_class, kwargs),
          e0 \in InitColorDraws(avatar_class, kwargs) :
           \E c \in { Construct(avatar_class, kwargs, nextId, e0, rnd) } :
               IF c.err # NoError
               THEN /\ err' = c.err
                    /\ obj' = None
                    /\ pc' = "raised"
                    /\ nextId' = nextId + 1
                    /\ calls' = calls + 1
                    /\ UNCHANGED <<trace, handed>>
               ELSE \E d \in GenerateDraws(c.self) :
                      \E g \in { Generate(c.self, nextId + 1, d.e, d.cx, d.cy, handed) } :
                          /\ Generated(c.self, g, nextId + 1)
                          /\ pc' = IF g.err = NoError THEN "factory" ELSE "raised"
    /\ UNCHANGED <<avatar_class, kwargs>>

Next ==
    \/ NewSquareAvatar
    \/ NewCharAvatar
    \/ NewCharSquareAvatar
    \/ InstanceGenerate
    \/ NewAvatar
    \/ AvatarGenerate

Spec == Init /\ [][Next]_vars

(***************************************************************************)
(* The claims.                                                             *)
(***************************************************************************)
\* a construction of a generator has been attempted
Attempted ==
    /\ avatar_class \in Classes
    /\ \/ pc = "instance"
       \/ pc = "raised"
       \/ pc = "factory" /\ calls > 0

SquareLike == avatar_class \in {"SquareAvatar", "CharSquareAvatar"}
CharLike == avatar_class \in {"CharAvatar", "CharSquareAvatar"}

\* every optional argument is left out; string, where the class takes one,
\* is not empty
OnlyRequiredGiven ==
    /\ IsNone(kwargs.color_list)
    /\ IsNone(kwargs.squares_quantity_on_axis)
    /\ IsNone(kwargs.blur_radius)
    /\ IsNone(kwargs.rotate)
    /\ IsNone(kwargs.square_border)
    /\ IsNone(kwargs.background_color)
    /\ IsNone(kwargs.font_size)
    /\ CharLike => Len(Val(kwargs.string)) > 0

\* C1: for every size >= 1 and every generator class, with every optional
\* argument left out, construction succeeds and generate() returns a raster
\* of exactly size x size.
C1_EverySizeYieldsRaster ==
    (Attempted /\ Val(kwargs.size) >= 1 /\ OnlyRequiredGiven) =>
        /\ err = NoError
        /\ calls > 0 =>
             /\ ~IsNone(trace.ret)
             /\ Val(trace.ret).w = Val(kwargs.size)
             /\ Val(trace.ret).h = Val(kwargs.size)

\* C2: an integer rotate argument, 0 included, is the angle generate() rotates
\* the canvas by; the random default is used only when rotate is left out.
C2_SuppliedRotateUsed ==
    (~IsNone(trace.rotated) /\ ~IsNone(kwargs.rotate)) =>
        Val(trace.rotated) = Val(kwargs.rotate)

\* C3: a squares_quantity_on_axis or font_size argument below 1 (0 or
\* negative) makes construction fail with a validation error; no generator
\* using another value comes out of it.
C3_BelowMinimumRejected ==
    ( /\ Attempted
      /\ \/ /\ SquareLike
            /\ ~IsNone(kwargs.squares_quantity_on_axis)
            /\ Val(kwargs.squares_quantity_on_axis) < 1
         \/ /\ CharLike
            /\ ~IsNone(kwargs.font_size)
            /\ Val(kwargs.font_size) < 1 )
    => (err = "ValidationError" /\ IsNone(obj))

\* C4: with an empty string the Character generator fails with
\* InvalidInputError and no IndexError reaches the caller; with a non-empty
\* string the glyph drawn is the first character, uppercased.
C4_EmptyStringIsInvalidInput ==
    /\ err # "IndexError"
    /\ ( /\ Attempted /\ CharLike /\ calls > 0
         /\ Len(Val(kwargs.string)) = 0
         /\ err \notin {"ValidationError", "ZeroDivisionError"} )
       => err = "InvalidInputError"
    /\ ~IsNone(trace.glyph) =>
         /\ Len(Val(kwargs.string)) > 0
         /\ Val(trace.glyph) = Upper(Val(kwargs.string)[1])

\* the last n entries of a sequence
Last(seq, n) == SubSeq(seq, Len(seq) - n + 1, Len(seq))

R2(a, b) == [a |-> a, b |-> b]
R2Mul(x, y) == R2(x.a * y.a + 2 * x.b * y.b, x.a * y.b + x.b * y.a)
R2Add(x, y) == R2(x.a + y.a, x.b + y.b)
R2Neg(x) == R2(-x.a, -x.b)

Directions ==
    { [c |-> R2(1, 0), s |-> R2(0, 0), h |-> 1],       \* 0 degrees
      [c |-> R2(0, 1), s |-> R2(0, 1), h |-> 2],       \* 45 degrees
      [c |-> R2(0, 0), s |-> R2(1, 0), h |-> 1],       \* 90 degrees
      [c |-> R2(0, -1), s |-> R2(0, 1), h |-> 2],      \* 135 degrees
      [c |-> R2(4, 0), s |-> R2(3, 0), h |-> 5],       \* about 36.87 degrees
      [c |-> R2(3, 0), s |-> R2(4, 0), h |-> 5],       \* about 53.13
      [c |-> R2(12, 0), s |-> R2(5, 0), h |-> 13],     \* about 22.62
      [c |-> R2(15, 0), s |-> R2(8, 0), h |-> 17],     \* about 28.07
      [c |-> R2(-3, 0), s |-> R2(-4, 0), h |-> 5],     \* about 233.13
      [c |-> R2(0, 1), s |-> R2(0, 7), h |-> 10],      \* about 81.87
      [c |-> R2(0, -1), s |-> R2(0, 7), h |-> 10],     \* about 98.13
      [c |-> R2(0, 7), s |-> R2(0, -17), h |-> 26] }   \* about 292.38

\* every direction is a unit vector
DirectionsAreUnit ==
    \A dir \in Directions :
        R2Add(R2Mul(dir.c, dir.c), R2Mul(dir.s, dir.s)) = R2(dir.h * dir.h, 0)

\* |n| <= bound, n = a + b*sqrt(2), bound an integer
R2AbsLeq(n, bound) ==
    /\ NonPos(n.a - bound, n.b)
    /\ NonPos(-n.a - bound, -n.b)

\* the point (px, py), coordinates (a + b*sqrt(2))/2, lies in the square of
\* side 2*size that has been turned by dir about its centre (size, size)
InRotatedSquare(px, py, dir, size) ==
    LET dx == Q2Sub(px, Q2FromInt(size))
        dy == Q2Sub(py, Q2FromInt(size))
        along == R2Add(R2Mul(dir.c, dx), R2Mul(dir.s, dy))
        across == R2Add(R2Mul(R2Neg(dir.s), dx), R2Mul(dir.c, dy))
    IN  /\ R2AbsLeq(along, 2 * dir.h * size)
        /\ R2AbsLeq(across, 2 * dir.h * size)

\* C6: for every size and each of the four (x0, y0) choices, the crop box is
\* the size x size window with x1 = x0 + size and y1 = y0 + size, and its four
\* corners (so the whole box) lie inside the 2*size working square turned
\* about its centre by any angle.
C6_CropInsideRotatedSquare ==
    ~IsNone(trace.box) =>
        LET box == Val(trace.box)
            size == Val(Val(obj).size)
        IN  /\ DirectionsAreUnit
            /\ box.x1 = Q2Add(box.x0, Q2FromInt(size))
            /\ box.y1 = Q2Add(box.y0, Q2FromInt(size))
            /\ \A dir \in Directions :
                 \A px \in {box.x0, box.x1}, py \in {box.y0, box.y1} :
                    InRotatedSquare(px, py, dir, size)

C6_Witness ==
    /\ ~IsNone(trace.box)
    /\ Val(Val(obj).size) = MaxSize
    /\ Val(trace.box).x0 = Q2(0, MaxSize)
    /\ Val(trace.box).y0 = Q2(2 * MaxSize, -MaxSize)

\* C7: Avatar(avatar_class, **kwargs) raises the unknown-variant error exactly
\* when avatar_class is none of the three generator classes, at creation and
\* before any generator is constructed; for a known class creation raises
\* nothing whatever the arguments are.
C7_UnknownVariantAtCreation ==
    /\ err = "AttributeError" <=> (pc # "start" /\ avatar_class \notin Classes)
    /\ (pc # "start" /\ avatar_class \notin Classes) =>
         /\ pc = "raised"
         /\ IsNone(obj)
         /\ nextId = 0
         /\ calls = 0
    /\ (pc = "factory" /\ calls = 0) =>
         /\ avatar_class \in Classes
         /\ err = NoError
         /\ IsNone(obj)
         /\ nextId = 0

C7_Witness ==
    /\ pc = "raised"
    /\ err = "AttributeError"
    /\ avatar_class = "BaseAvatar"
    /\ Val(kwargs.size) = 0

\* the colour list the arguments ask for: the flat palette when left out
AskedColorList ==
    IF IsNone(kwargs.color_list) THEN COLOR_LIST_FLAT ELSE Val(kwargs.color_list)

\* a colour sampled by get_random_color comes from where the claim says
FromAskedList(sample) ==
    IF Len(AskedColorList) > 0
    THEN sample.via = "choice" /\ sample.color \in Range(AskedColorList)
    ELSE sample.via = "get_random_hex_color" /\ sample.color \in HexSamples

\* C8: get_random_color() returns an element of color_list when color_list is
\* not empty, and a get_random_hex_color() value, never a palette entry drawn
\* by choice, when it is empty; so for the fill of every cell of the Square
\* grid and for the Char background chosen when background_color is left out.
C8_RandomColorSource ==
    /\ ~IsNone(trace.fill) => FromAskedList(Val(trace.fill))
    /\ ( /\ ~IsNone(obj)
         /\ avatar_class = "CharAvatar"
         /\ IsNone(kwargs.background_color) )
       => FromAskedList([color |-> Val(Val(obj).img).color,
                         via |-> Val(Val(obj).img).via])

C8_Witness ==
    /\ ~IsNone(trace.fill)
    /\ ~IsNone(kwargs.color_list)
    /\ Len(Val(kwargs.color_list)) = 0
    /\ Val(trace.fill).via = "get_random_hex_color"

\* C9: for every size >= 1 and validated squares_quantity_on_axis >= 1 the
\* square side length floor(2*size / squares_quantity_on_axis) is at least 1
\* and exactly squares_quantity_on_axis squares are drawn along each axis.
C9_SquaresPerAxis ==
    trace.side_length # -1 =>
        /\ trace.side_length >= 1
        /\ err # "ZeroDivisionError"
        /\ trace.per_axis = Val(Val(obj).squares_quantity_on_axis)

\* C10: on one instance every generate() call starts from a working canvas of
\* side 2*size, and no call draws on a raster an earlier call handed back.
C10_FreshWorkingCanvas ==
    trace.startId # -1 =>
        /\ trace.startW = 2 * Val(Val(obj).size)
        /\ ~trace.startHanded

====
